---- MODULE Spec2Model ----
(***************************************************************************)
(* The chat client of language-tutor (src/unnamed/part_000, class ChatApp  *)
(* at lines 321-664): one handler, sendMessage, starts a correction        *)
(* request and a streaming reply request for each accepted user turn.      *)
(*                                                                         *)
(* Texts are sequences of one-character strings, so that trim(), string    *)
(* concatenation and includes() are computed and not assumed.              *)
(* Every `await` of the source is a scheduling point: the part of a        *)
(* handler between two awaits is one action.                               *)
(* The content of the text box is an input of sendMessage, read when the   *)
(* event fires; the state of a returned activation that nothing can read   *)
(* any more (its locals, the chunks of its stream) is reset.               *)
(***************************************************************************)
EXTENDS Integers, Sequences, FiniteSets, TLC

VARIABLES
    openai,            \* this.openai # null (a credential is configured)
    messages,          \* this.messages: the history sent with reply requests
    isStreaming,       \* this.isStreaming: the busy flag
    sendBtnDisabled,   \* this.sendBtn.disabled
    userInputDisabled, \* this.userInput.disabled
    settingsHidden,    \* this.settingsModal.hidden
    transcript,        \* children of this.messagesContainer, in document order
    turns,             \* activations of sendMessage that went past its guards
    net,               \* the requests issued, with what the server has sent back
    timers             \* pending setTimeout(() => this.showSettings(), 1000)

vars == <<openai, messages, isStreaming, sendBtnDisabled,
          userInputDisabled, settingsHidden, transcript, turns, net, timers>>

----------------------------------------------------------------------------
(* Bounds of the model *)

\* accepted turns in one run
MaxTurns == 2
\* chunks the server sends on one reply stream
MaxChunks == 2

----------------------------------------------------------------------------
(* Texts *)

RECURSIVE TrimStart(_)
TrimStart(s) ==
    IF s # <<>> /\ Head(s) = " " THEN TrimStart(Tail(s)) ELSE s

RECURSIVE TrimEnd(_)
TrimEnd(s) ==
    IF s # <<>> /\ s[Len(s)] = " " THEN TrimEnd(SubSeq(s, 1, Len(s) - 1)) ELSE s

\* String.prototype.trim
Trim(s) == TrimEnd(TrimStart(s))

\* String.prototype.includes
Includes(s, sub) ==
    \E i \in 0..(Len(s) - Len(sub)) : SubSeq(s, i + 1, i + Len(sub)) = sub

\* this.userInput.value when Send is clicked or Enter is pressed
InputValues == { <<>>, <<" ">>, <<"h">>, <<" ", "y", " ">> }

\* what the user may have in the API key field when Save is clicked
KeyValues == { <<>>, <<" ">>, <<"k">> }

\* the content of the system message pushed by init()
Persona == <<"P">>

\* 'Error: ' of the template literal at line 503
ErrorPrefix == <<"E", "r", "r", "o", "r", ":", " ">>

\* the fallback text of line 502
AnErrorOccurred ==
    <<"A", "n", " ", "e", "r", "r", "o", "r", " ",
      "o", "c", "c", "u", "r", "r", "e", "d">>

\* the two needles of line 506
Needle401 == <<"4", "0", "1">>
NeedleApiKey == <<"A", "P", "I", " ", "k", "e", "y">>

----------------------------------------------------------------------------
(* What the server may answer *)

\* chunk.choices[0]?.delta?.content of one chunk; NoContent: the field is absent
NoContent == <<"<absent>">>
Chunks == { NoContent, <<"a">>, <<"b">> }

\* values a reply request can throw: Error objects with a message, or a
\* value that is no Error
ThrownError(m) == [isError |-> TRUE, message |-> m]
NotAnError == [isError |-> FALSE, message |-> <<>>]
ReplyErrors ==
    { ThrownError(<<"4", "0", "1", " ", "n", "o">>),
      ThrownError(<<"b", "a", "d", " ", "A", "P", "I", " ", "k", "e", "y">>),
      ThrownError(<<"n", "e", "t">>),
      NotAnError }

\* the TypeError of reading .length of undefined (line 603)
TypeErrorLength ==
    ThrownError(<<"u", "n", "d", "e", "f", "i", "n", "e", "d", ".",
                  "l", "e", "n", "g", "t", "h">>)

\* response.choices[0]?.message?.content of a correction response
BodyEmpty == ""
BodyNotJson == "Sorry, I cannot"
BodyNull == "null"
BodyNumber == "5"
BodyClean == "{hasCorrections:false,corrections:[]}"
BodyFlagNoItems == "{hasCorrections:true,corrections:[]}"
BodyItemsNoFlag == "{hasCorrections:false,corrections:[E]}"
BodyErrorAndStyle == "{hasCorrections:true,corrections:[E,S]}"
BodyNoArray == "{hasCorrections:true}"
Bodies ==
    { BodyEmpty, BodyNotJson, BodyNull, BodyNumber, BodyClean, BodyFlagNoItems,
      BodyItemsNoFlag, BodyErrorAndStyle, BodyNoArray }

----------------------------------------------------------------------------
(* JavaScript values of a parsed correction payload *)

JsUndefined == [t |-> "undefined"]
JsNull == [t |-> "null"]
JsBool(b) == [t |-> "boolean", v |-> b]
JsNumber(n) == [t |-> "number", n |-> n]
JsArray(items) == [t |-> "array", items |-> items]
JsObject(h, c) == [t |-> "object", hasCorrections |-> h, corrections |-> c]

ItemE ==
    [type |-> "error", original |-> <<"o">>, suggestion |-> <<"s">>,
     explanation |-> <<"x">>]
ItemS ==
    [type |-> "style", original |-> <<"p">>, suggestion |-> <<"t">>,
     explanation |-> <<"y">>]

\* JSON.parse(content), line 594: the value, or a SyntaxError
JSONparse(body) ==
    CASE body = BodyNull -> [ok |-> TRUE, value |-> JsNull]
      [] body = BodyNumber -> [ok |-> TRUE, value |-> JsNumber(5)]
      [] body = BodyClean ->
            [ok |-> TRUE, value |-> JsObject(JsBool(FALSE), JsArray(<<>>))]
      [] body = BodyFlagNoItems ->
            [ok |-> TRUE, value |-> JsObject(JsBool(TRUE), JsArray(<<>>))]
      [] body = BodyItemsNoFlag ->
            [ok |-> TRUE, value |-> JsObject(JsBool(FALSE), JsArray(<<ItemE>>))]
      [] body = BodyErrorAndStyle ->
            [ok |-> TRUE,
             value |-> JsObject(JsBool(TRUE), JsArray(<<ItemE, ItemS>>))]
      [] body = BodyNoArray ->
            [ok |-> TRUE, value |-> JsObject(JsBool(TRUE), JsUndefined)]
      [] OTHER -> [ok |-> FALSE, value |-> JsUndefined]

\* ToBoolean of a value
Truthy(v) ==
    CASE v.t = "undefined" -> FALSE
      [] v.t = "null" -> FALSE
      [] v.t = "boolean" -> v.v
      [] v.t = "number" -> v.n # 0
      [] OTHER -> TRUE

\* property access value.name on a parsed payload
GetHasCorrections(v) == IF v.t = "object" THEN v.hasCorrections ELSE JsUndefined
GetCorrections(v) == IF v.t = "object" THEN v.corrections ELSE JsUndefined

\* one entry of the .map at lines 609-612
FormatCorrection(c) ==
    (IF c.type = "error" THEN <<"E", "r", "r", "o", "r">>
                         ELSE <<"S", "t", "y", "l", "e">>)
    \o <<":", " ">> \o c.suggestion \o <<"\n", "->", " ">> \o c.explanation

\* .map(...).join('\n\n') of lines 608-613
RECURSIVE CorrectionsText(_)
CorrectionsText(items) ==
    IF items = <<>> THEN <<>>
    ELSE IF Len(items) = 1 THEN FormatCorrection(items[1])
    ELSE FormatCorrection(items[1]) \o <<"\n", "\n">> \o CorrectionsText(Tail(items))

\* addCorrectionsToMessage with line 603 testing the length alone
AddCorrectionsOutcomeLengthOnly(data) ==
    IF GetCorrections(data).t # "array"
    THEN [kind |-> "throw", text |-> <<>>]
    ELSE IF Len(GetCorrections(data).items) = 0
    THEN [kind |-> "return", text |-> <<>>]
    ELSE [kind |-> "attach", text |-> CorrectionsText(GetCorrections(data).items)]

\* addCorrectionsToMessage up to the point where it touches the document:
\* it returns early, throws, or goes on to attach the formatted text
AddCorrectionsOutcome(data) ==
    IF ~Truthy(GetHasCorrections(data))
    THEN [kind |-> "return", text |-> <<>>]
    ELSE IF GetCorrections(data).t # "array"
    THEN [kind |-> "throw", text |-> <<>>]
    ELSE IF Len(GetCorrections(data).items) = 0
    THEN [kind |-> "return", text |-> <<>>]
    ELSE [kind |-> "attach", text |-> CorrectionsText(GetCorrections(data).items)]

----------------------------------------------------------------------------
(* State *)

\* a Message of this.messages
Message(role, content) == [role |-> role, content |-> content]

\* a child of messagesContainer made by createMessageElement (lines 646-659):
\* its class, the text of its .message-content, and what
\* addCorrectionsToMessage appended to it; turn is the activation that made it
MessageElement(role, content, k) ==
    [role |-> role, text |-> content, annotations |-> <<>>, turn |-> k]

\* a badge with its corrections container (lines 615-643); by is the
\* activation that attached it
Annotation(text, k) ==
    [hidden |-> TRUE, active |-> FALSE, text |-> text, by |-> k]

\* state of the promise returned by getCorrections
Pending == [state |-> "pending"]
Fulfilled(v) == [state |-> "fulfilled", value |-> v]
RejectedWith(error) == [state |-> "rejected", error |-> error]
\* the promise of an activation that has returned: nothing reads it any more
Unreferenced == [state |-> "unreferenced"]

\* a response to the correction request: the request failed (ok is FALSE), or
\* it was answered with content body
CorrectionResponses ==
    { [ok |-> FALSE, body |-> BodyEmpty] } \cup
    { [ok |-> TRUE, body |-> b] : b \in Bodies }

\* the SyntaxError of JSON.parse, and the error of a failed request
SyntaxErrorJson == ThrownError(<<"J", "S", "O", "N">>)
RequestFailed == ThrownError(<<"n", "e", "t">>)

\* a getCorrections without its try/catch: failures reject the promise
getCorrectionsNoCatch(response) ==
    IF ~response.ok
    THEN RejectedWith(RequestFailed)
    ELSE IF response.body = BodyEmpty
    THEN Fulfilled(JsNull)
    ELSE IF JSONparse(response.body).ok
    THEN Fulfilled(JSONparse(response.body).value)
    ELSE RejectedWith(SyntaxErrorJson)

\* how the promise of getCorrections settles for a response (lines 520-598):
\* null for a failed request, for no content and for a parse error
getCorrections(response) ==
    IF ~response.ok
    THEN Fulfilled(JsNull)
    ELSE IF response.body = BodyEmpty
    THEN Fulfilled(JsNull)
    ELSE IF JSONparse(response.body).ok
    THEN Fulfilled(JSONparse(response.body).value)
    ELSE Fulfilled(JsNull)

\* what init() leaves, for a stored key or none (lines 347-371); the modal
\* is hidden in the page until showSettings() runs
Init ==
    /\ openai \in BOOLEAN
    /\ messages = << Message("system", Persona) >>
    /\ isStreaming = FALSE
    /\ sendBtnDisabled = FALSE
    /\ userInputDisabled = FALSE
    /\ settingsHidden = openai
    /\ transcript = <<>>
    /\ turns = <<>>
    /\ net = <<>>
    /\ timers = 0

----------------------------------------------------------------------------
(* Settings and input events (lines 400-443) *)

showSettings ==
    /\ settingsHidden' = FALSE
    /\ UNCHANGED <<openai, messages, isStreaming, sendBtnDisabled,
                   userInputDisabled, transcript, turns, net, timers>>

hideSettings ==
    /\ settingsHidden' = TRUE
    /\ UNCHANGED <<openai, messages, isStreaming, sendBtnDisabled,
                   userInputDisabled, transcript, turns, net, timers>>

\* keydown Escape on the document (lines 423-427)
EscapeKey ==
    /\ ~settingsHidden
    /\ hideSettings

\* click on Save with key in the API key field (lines 384-398)
saveApiKey(key) ==
    IF Trim(key) = <<>>
    THEN UNCHANGED vars
    ELSE /\ openai' = TRUE
         /\ settingsHidden' = TRUE
         /\ UNCHANGED <<messages, isStreaming, sendBtnDisabled,
                        userInputDisabled, transcript, turns, net, timers>>

\* the timer set at line 507 fires
TimerFires ==
    /\ timers > 0
    /\ timers' = timers - 1
    /\ settingsHidden' = FALSE
    /\ UNCHANGED <<openai, messages, isStreaming, sendBtnDisabled,
                   userInputDisabled, transcript, turns, net>>

\* a badge.onclick that only ever shows the panel
BadgeClickOpensOnly(i, j) ==
    /\ i \in DOMAIN transcript
    /\ j \in DOMAIN transcript[i].annotations
    /\ transcript' =
         [transcript EXCEPT ![i].annotations[j].hidden = FALSE,
                            ![i].annotations[j].active = TRUE]
    /\ UNCHANGED <<openai, messages, isStreaming, sendBtnDisabled,
                   userInputDisabled, settingsHidden, turns, net, timers>>

\* badge.onclick of annotation j of node i (lines 636-640)
BadgeClick(i, j) ==
    /\ i \in DOMAIN transcript
    /\ j \in DOMAIN transcript[i].annotations
    /\ LET isHidden == transcript[i].annotations[j].hidden
       IN transcript' =
            [transcript EXCEPT ![i].annotations[j].hidden = ~isHidden,
                               ![i].annotations[j].active = ~isHidden]
    /\ UNCHANGED <<openai, messages, isStreaming, sendBtnDisabled,
                   userInputDisabled, settingsHidden, turns, net, timers>>

----------------------------------------------------------------------------
(* sendMessage (lines 445-515) and getCorrections (lines 517-599) *)

\* a sendMessage without the check of line 446
NoCredentialUnchecked == FALSE

\* line 446: no client, so no credential
NoCredential == ~openai

\* line 453 without the busy flag
RejectedEmptyOnly(content) == content = <<>>

\* line 453: nothing to send, or a turn is in flight
Rejected(content) == content = <<>> \/ isStreaming

\* line 477 sending the current user message alone
RequestsLastMessageOnly(context, userMessage) ==
    [context |-> << Message("user", userMessage) >>, reply |-> "pending",
     chunks |-> <<>>, userMessage |-> userMessage, corrections |-> "pending"]

\* the two requests of activation k, as the server sees them: the payload of
\* each, how far each has got, and the chunks delivered on the reply stream
Requests(context, userMessage) ==
    [context |-> context, reply |-> "pending", chunks |-> <<>>,
     userMessage |-> userMessage, corrections |-> "pending"]

\* chunk.choices[0]?.delta?.content || '' (line 485)
Delta(chunk) == IF chunk = NoContent THEN <<>> ELSE chunk

\* line 486 with = for +=
Overwrite(fullContent, delta) == delta

\* line 486
Accumulate(fullContent, delta) == fullContent \o delta

\* line 492 left out
CommitNothing(history, fullContent) == history

\* line 492 assigning to the last slot of the array
CommitOverLast(history, fullContent) ==
    [history EXCEPT ![Len(history)] = Message("assistant", fullContent)]

\* line 492
CommitReply(history, fullContent) ==
    Append(history, Message("assistant", fullContent))

\* the concatenation of the deltas of a sequence of chunks
RECURSIVE ConcatDeltas(_)
ConcatDeltas(chunks) ==
    IF chunks = <<>> THEN <<>>
    ELSE Delta(Head(chunks)) \o ConcatDeltas(Tail(chunks))

\* line 502
ErrorMessage(error) ==
    IF error.isError THEN error.message ELSE AnErrorOccurred

\* line 506 testing for '401' alone
IsAuthError401Only(errorMessage) == Includes(errorMessage, Needle401)

\* line 506 holding for every message
IsAnyError(errorMessage) == TRUE

\* line 506
IsAuthError(errorMessage) ==
    Includes(errorMessage, Needle401) \/ Includes(errorMessage, NeedleApiKey)

\* line 497 with document.querySelector('.user-message') for the element
AttachTargetFirstUserNode(k) ==
    CHOOSE i \in DOMAIN transcript :
        /\ transcript[i].role = "user"
        /\ \A j \in 1..(i - 1) : transcript[j].role # "user"

\* the node addCorrectionsToMessage appends to (line 497 passes the
\* activation's own userMessageElement)
AttachTarget(k) == turns[k].userMessageElement

\* line 495 without the await
NotAwaited(promise) == TRUE

\* line 495: the activation resumes once the promise has settled
Awaited(promise) == promise.state \in {"fulfilled", "rejected"}

\* what line 495 hands to line 496: the value the promise was fulfilled with
\* (a promise that is not awaited is itself the value: an object)
AwaitedValue(promise) ==
    IF promise.state = "fulfilled" THEN promise.value ELSE [t |-> "promise"]

\* a sendMessage whose release of lines 510-512 is skipped
FinallyWithoutRelease(k) ==
    /\ UNCHANGED <<isStreaming, sendBtnDisabled, userInputDisabled>>
    /\ turns' = [turns EXCEPT ![k].pc = "done",
                              ![k].fullContent = <<>>,
                              ![k].correctionsPromise = Unreferenced]

\* a finally block without line 512
FinallyLeavesInputDisabled(k) ==
    /\ isStreaming' = FALSE
    /\ sendBtnDisabled' = FALSE
    /\ UNCHANGED userInputDisabled
    /\ turns' = [turns EXCEPT ![k].pc = "done",
                              ![k].fullContent = <<>>,
                              ![k].correctionsPromise = Unreferenced]

\* the finally block (lines 509-514), and the end of activation k
Finally(k) ==
    /\ isStreaming' = FALSE
    /\ sendBtnDisabled' = FALSE
    /\ userInputDisabled' = FALSE
    /\ turns' = [turns EXCEPT ![k].pc = "done",
                              ![k].fullContent = <<>>,
                              ![k].correctionsPromise = Unreferenced]

\* a catch block that shows the error with addMessage, as src/app.ts does
CatchHistoryWithError(history, error) ==
    Append(history, Message("assistant", ErrorPrefix \o ErrorMessage(error)))

\* this.messages after the catch block (lines 500-508), which only renders
\* the error with createMessageElement
CatchHistory(history, error) == history

\* a catch block that puts the error text into the placeholder
CatchFinallyOverwritesPlaceholder(k, error, doc) ==
    /\ transcript' =
         [doc EXCEPT ![turns[k].contentDiv].text =
                        ErrorPrefix \o ErrorMessage(error)]
    /\ messages' = CatchHistory(messages, error)
    /\ timers' = IF IsAuthError(ErrorMessage(error)) THEN timers + 1 ELSE timers
    /\ Finally(k)

\* the catch block (lines 500-508) for a thrown error, then the finally block
CatchFinally(k, error, doc) ==
    /\ transcript' =
         Append(doc, MessageElement("assistant",
                                    ErrorPrefix \o ErrorMessage(error), k))
    /\ messages' = CatchHistory(messages, error)
    /\ timers' = IF IsAuthError(ErrorMessage(error)) THEN timers + 1 ELSE timers
    /\ Finally(k)

\* click on Send, or Enter in the text box, with value in the text box:
\* sendMessage up to its first await
sendMessage(value) ==
    IF NoCredential
    THEN /\ settingsHidden' = FALSE
         /\ UNCHANGED <<openai, messages, isStreaming,
                        sendBtnDisabled, userInputDisabled, transcript, turns,
                        net, timers>>
    ELSE LET content == Trim(value) IN
         IF Rejected(content)
         THEN UNCHANGED vars
         ELSE /\ Len(turns) < MaxTurns
              /\ LET k == Len(turns) + 1
                     userMessageElement == Len(transcript) + 1
                     contentDiv == Len(transcript) + 2
                     history == Append(messages, Message("user", content))
                 IN /\ isStreaming' = TRUE
                    /\ sendBtnDisabled' = TRUE
                    /\ userInputDisabled' = TRUE
                    /\ transcript' =
                         transcript \o
                           << MessageElement("user", content, k),
                              MessageElement("assistant", <<>>, k) >>
                    /\ messages' = history
                    /\ net' = Append(net, Requests(history, content))
                    /\ turns' =
                         Append(turns,
                                [pc |-> "create",
                                 content |-> content,
                                 userMessageElement |-> userMessageElement,
                                 contentDiv |-> contentDiv,
                                 fullContent |-> <<>>,
                                 correctionsPromise |-> Pending])
              /\ UNCHANGED <<openai, settingsHidden, timers>>

\* the reply request of activation k is answered with a stream (line 476)
ReplyResolves(k) ==
    /\ k \in DOMAIN turns
    /\ turns[k].pc = "create"
    /\ turns' = [turns EXCEPT ![k].pc = "stream"]
    /\ net' = [net EXCEPT ![k].reply = "open"]
    /\ UNCHANGED <<openai, messages, isStreaming, sendBtnDisabled,
                   userInputDisabled, settingsHidden, transcript, timers>>

\* the reply request of activation k is rejected: catch, finally
ReplyRejects(k, error) ==
    /\ k \in DOMAIN turns
    /\ turns[k].pc = "create"
    /\ net' = [net EXCEPT ![k].reply = "failed", ![k].chunks = <<>>]
    /\ CatchFinally(k, error, transcript)
    /\ UNCHANGED <<openai, settingsHidden>>

\* one chunk arrives: one pass of the loop at lines 484-489
StreamChunk(k, chunk) ==
    /\ k \in DOMAIN turns
    /\ turns[k].pc = "stream"
    /\ Len(net[k].chunks) < MaxChunks
    /\ LET fullContent == Accumulate(turns[k].fullContent, Delta(chunk))
       IN /\ turns' = [turns EXCEPT ![k].fullContent = fullContent]
          /\ transcript' =
               [transcript EXCEPT ![turns[k].contentDiv].text = fullContent]
    /\ net' = [net EXCEPT ![k].chunks = Append(@, chunk)]
    /\ UNCHANGED <<openai, messages, isStreaming, sendBtnDisabled,
                   userInputDisabled, settingsHidden, timers>>

\* the stream ends: the loop exits, line 492 commits the reply, line 495 awaits
StreamEnds(k) ==
    /\ k \in DOMAIN turns
    /\ turns[k].pc = "stream"
    /\ messages' = CommitReply(messages, turns[k].fullContent)
    /\ turns' = [turns EXCEPT ![k].pc = "corrections"]
    /\ net' = [net EXCEPT ![k].reply = "ended"]
    /\ UNCHANGED <<openai, isStreaming, sendBtnDisabled,
                   userInputDisabled, settingsHidden, transcript, timers>>

\* the stream throws in the loop: catch, finally
StreamThrows(k, error) ==
    /\ k \in DOMAIN turns
    /\ turns[k].pc = "stream"
    /\ net' = [net EXCEPT ![k].reply = "failed", ![k].chunks = <<>>]
    /\ CatchFinally(k, error, transcript)
    /\ UNCHANGED <<openai, settingsHidden>>

\* the correction request of activation k gets its response, and the rest of
\* getCorrections settles the promise (lines 591-598)
CorrectionSettles(k, response) ==
    /\ k \in DOMAIN turns
    /\ net[k].corrections = "pending"
    /\ net' = [net EXCEPT ![k].corrections = "settled"]
    /\ turns' =
         [turns EXCEPT ![k].correctionsPromise =
            IF @ = Unreferenced THEN Unreferenced ELSE getCorrections(response)]
    /\ UNCHANGED <<openai, messages, isStreaming, sendBtnDisabled,
                   userInputDisabled, settingsHidden, transcript, timers>>

\* activation k resumes from `await correctionsPromise` (lines 495-498),
\* then runs the finally block, through the catch block if the await or
\* addCorrectionsToMessage threw
ResumeCorrections(k) ==
    /\ k \in DOMAIN turns
    /\ turns[k].pc = "corrections"
    /\ Awaited(turns[k].correctionsPromise)
    /\ IF turns[k].correctionsPromise.state = "rejected"
       THEN CatchFinally(k, turns[k].correctionsPromise.error, transcript)
       ELSE LET corrections == AwaitedValue(turns[k].correctionsPromise)
                outcome == AddCorrectionsOutcome(corrections)
                i == AttachTarget(k)
            IN IF ~Truthy(corrections) \/ outcome.kind = "return"
               THEN /\ Finally(k)
                    /\ UNCHANGED <<transcript, timers, messages>>
               ELSE IF outcome.kind = "throw"
               THEN CatchFinally(k, TypeErrorLength, transcript)
               ELSE /\ transcript' =
                         [transcript EXCEPT ![i].annotations =
                            Append(@, Annotation(outcome.text, k))]
                    /\ Finally(k)
                    /\ UNCHANGED <<timers, messages>>
    /\ net' = [net EXCEPT ![k].chunks = <<>>]
    /\ UNCHANGED <<openai, settingsHidden>>

----------------------------------------------------------------------------

Next ==
    \/ \E value \in InputValues : sendMessage(value)
    \/ showSettings
    \/ hideSettings
    \/ EscapeKey
    \/ \E key \in KeyValues : saveApiKey(key)
    \/ TimerFires
    \/ \E i \in 1..(2 * MaxTurns + MaxTurns), j \in 1..MaxTurns : BadgeClick(i, j)
    \/ \E k \in 1..MaxTurns : ReplyResolves(k)
    \/ \E k \in 1..MaxTurns, error \in ReplyErrors : ReplyRejects(k, error)
    \/ \E k \in 1..MaxTurns, chunk \in Chunks : StreamChunk(k, chunk)
    \/ \E k \in 1..MaxTurns : StreamEnds(k)
    \/ \E k \in 1..MaxTurns, error \in ReplyErrors : StreamThrows(k, error)
    \/ \E k \in 1..MaxTurns, response \in CorrectionResponses :
          CorrectionSettles(k, response)
    \/ \E k \in 1..MaxTurns : ResumeCorrections(k)

Spec == Init /\ [][Next]_vars

\* Spec with the scheduling the claims about termination rely on: every
\* request is answered or fails, a stream that is open ends or throws, and
\* an activation whose awaited promise has settled is resumed
Fairness ==
    /\ \A k \in 1..MaxTurns :
          /\ WF_vars(ReplyResolves(k) \/ \E error \in ReplyErrors : ReplyRejects(k, error))
          /\ WF_vars(StreamEnds(k) \/ \E error \in ReplyErrors : StreamThrows(k, error))
          /\ WF_vars(\E response \in CorrectionResponses : CorrectionSettles(k, response))
          /\ WF_vars(ResumeCorrections(k))

FairSpec == Spec /\ Fairness

----------------------------------------------------------------------------
(* The variant of src/app.ts: no persona message, no correction request.
   Its settings handlers and its timer callback are those above. *)

\* the state after the constructor (src/app.ts lines 9-43)
App_Init ==
    /\ openai \in BOOLEAN
    /\ messages = <<>>
    /\ isStreaming = FALSE
    /\ sendBtnDisabled = FALSE
    /\ userInputDisabled = FALSE
    /\ settingsHidden = openai
    /\ transcript = <<>>
    /\ turns = <<>>
    /\ net = <<>>
    /\ timers = 0

\* createMessageElement (src/app.ts lines 183-196), made by activation k
App_createMessageElement(role, content, k) ==
    [role |-> role, text |-> content, turn |-> k]

\* addMessage (src/app.ts lines 178-181): the push onto this.messages ...
App_addMessageHistory(history, role, content) ==
    Append(history, Message(role, content))

\* ... and the node it appends to the transcript
App_addMessageNode(doc, role, content, k) ==
    Append(doc, App_createMessageElement(role, content, k))

\* the finally block (src/app.ts lines 170-175), and the end of activation k
App_Finally(k) ==
    /\ isStreaming' = FALSE
    /\ sendBtnDisabled' = FALSE
    /\ userInputDisabled' = FALSE
    /\ turns' = [turns EXCEPT ![k].pc = "done", ![k].fullContent = <<>>]

\* the catch block (src/app.ts lines 161-169), then the finally block
App_CatchFinally(k, error) ==
    /\ messages' =
         App_addMessageHistory(messages, "assistant",
                               ErrorPrefix \o ErrorMessage(error))
    /\ transcript' =
         App_addMessageNode(transcript, "assistant",
                            ErrorPrefix \o ErrorMessage(error), k)
    /\ timers' = IF IsAuthError(ErrorMessage(error)) THEN timers + 1 ELSE timers
    /\ App_Finally(k)

\* sendMessage up to its first await (src/app.ts lines 117-147)
App_sendMessage(value) ==
    IF ~openai
    THEN /\ settingsHidden' = FALSE
         /\ UNCHANGED <<openai, messages, isStreaming,
                        sendBtnDisabled, userInputDisabled, transcript, turns,
                        net, timers>>
    ELSE LET content == Trim(value) IN
         IF content = <<>> \/ isStreaming
         THEN UNCHANGED vars
         ELSE /\ Len(turns) < MaxTurns
              /\ LET k == Len(turns) + 1
                     history == App_addMessageHistory(messages, "user", content)
                     doc == App_addMessageNode(transcript, "user", content, k)
                 IN /\ messages' = history
                    /\ isStreaming' = TRUE
                    /\ sendBtnDisabled' = TRUE
                    /\ userInputDisabled' = TRUE
                    /\ transcript' =
                         Append(doc, App_createMessageElement("assistant", <<>>, k))
                    /\ net' = Append(net, [context |-> history,
                                           reply |-> "pending",
                                           chunks |-> <<>>])
                    /\ turns' =
                         Append(turns,
                                [pc |-> "create",
                                 content |-> content,
                                 userMessageElement |-> Len(transcript) + 1,
                                 contentDiv |-> Len(transcript) + 2,
                                 fullContent |-> <<>>])
              /\ UNCHANGED <<openai, settingsHidden, timers>>

\* the reply request is answered with a stream (src/app.ts line 143)
App_ReplyResolves(k) ==
    /\ k \in DOMAIN turns
    /\ turns[k].pc = "create"
    /\ turns' = [turns EXCEPT ![k].pc = "stream"]
    /\ net' = [net EXCEPT ![k].reply = "open"]
    /\ UNCHANGED <<openai, messages, isStreaming, sendBtnDisabled,
                   userInputDisabled, settingsHidden, transcript, timers>>

\* the reply request is rejected: catch, finally
App_ReplyRejects(k, error) ==
    /\ k \in DOMAIN turns
    /\ turns[k].pc = "create"
    /\ net' = [net EXCEPT ![k].reply = "failed", ![k].chunks = <<>>]
    /\ App_CatchFinally(k, error)
    /\ UNCHANGED <<openai, settingsHidden>>

\* one pass of the loop (src/app.ts lines 151-156)
App_StreamChunk(k, chunk) ==
    /\ k \in DOMAIN turns
    /\ turns[k].pc = "stream"
    /\ Len(net[k].chunks) < MaxChunks
    /\ LET fullContent == turns[k].fullContent \o Delta(chunk)
       IN /\ turns' = [turns EXCEPT ![k].fullContent = fullContent]
          /\ transcript' =
               [transcript EXCEPT ![turns[k].contentDiv].text = fullContent]
    /\ net' = [net EXCEPT ![k].chunks = Append(@, chunk)]
    /\ UNCHANGED <<openai, messages, isStreaming, sendBtnDisabled,
                   userInputDisabled, settingsHidden, timers>>

\* the stream ends: the loop exits, line 159 commits the reply, finally
App_StreamEnds(k) ==
    /\ k \in DOMAIN turns
    /\ turns[k].pc = "stream"
    /\ messages' = Append(messages, Message("assistant", turns[k].fullContent))
    /\ net' = [net EXCEPT ![k].reply = "ended", ![k].chunks = <<>>]
    /\ App_Finally(k)
    /\ UNCHANGED <<openai, settingsHidden, transcript, timers>>

\* the stream throws in the loop: catch, finally
App_StreamThrows(k, error) ==
    /\ k \in DOMAIN turns
    /\ turns[k].pc = "stream"
    /\ net' = [net EXCEPT ![k].reply = "failed", ![k].chunks = <<>>]
    /\ App_CatchFinally(k, error)
    /\ UNCHANGED <<openai, settingsHidden>>

App_Next ==
    \/ \E value \in InputValues : App_sendMessage(value)
    \/ showSettings
    \/ hideSettings
    \/ EscapeKey
    \/ \E key \in KeyValues : saveApiKey(key)
    \/ TimerFires
    \/ \E k \in 1..MaxTurns : App_ReplyResolves(k)
    \/ \E k \in 1..MaxTurns, error \in ReplyErrors : App_ReplyRejects(k, error)
    \/ \E k \in 1..MaxTurns, chunk \in Chunks : App_StreamChunk(k, chunk)
    \/ \E k \in 1..MaxTurns : App_StreamEnds(k)
    \/ \E k \in 1..MaxTurns, error \in ReplyErrors : App_StreamThrows(k, error)

App_Spec == App_Init /\ [][App_Next]_vars

----------------------------------------------------------------------------
(* Properties *)

\* activations that have not returned yet
InFlight == { k \in DOMAIN turns : turns[k].pc # "done" }

\* the nodes createMessageElement made in the catch block
ErrorEntries ==
    { i \in DOMAIN transcript :
        \A k \in DOMAIN turns :
            i # turns[k].userMessageElement /\ i # turns[k].contentDiv }

\* C1: when the reply stream of every accepted turn has completed, the
\* history is the persona message followed, for each of the N turns in order,
\* by the turn's user message and then its assistant message: 1 + 2N messages.
C1_HistoryAlternates ==
    (\A k \in DOMAIN turns : net[k].reply = "ended") =>
        /\ Len(messages) = 1 + 2 * Len(turns)
        /\ messages[1] = Message("system", Persona)
        /\ \A k \in DOMAIN turns :
              /\ messages[2 * k] = Message("user", turns[k].content)
              /\ messages[2 * k + 1] =
                   Message("assistant", transcript[turns[k].contentDiv].text)

C1_Witness ==
    /\ Len(turns) >= 2
    /\ \A k \in DOMAIN turns : net[k].reply = "ended" /\ turns[k].pc = "done"
    /\ turns[1].content # turns[2].content
    /\ messages[3].content # messages[5].content

\* C2 (as claimed): once the reply path of the latest turn has failed, the
\* history is what it was before that sendMessage call, that is the context
\* of the turn's reply request without the turn's user message.
C2_FailedTurnAppendsNothing ==
    \A k \in DOMAIN turns :
        (k = Len(turns) /\ net[k].reply = "failed") =>
            messages = SubSeq(net[k].context, 1, Len(net[k].context) - 1)

\* C3: while the reply streams, the placeholder shows the concatenation of
\* the deltas received so far, in arrival order; when the stream has
\* completed, the assistant message appended to the history has the
\* concatenation of all the deltas as its content.
C3_DeltasInOrder ==
    \A k \in DOMAIN turns :
        /\ turns[k].pc \in {"stream", "corrections"} =>
              transcript[turns[k].contentDiv].text = ConcatDeltas(net[k].chunks)
        /\ turns[k].pc = "corrections" =>
              messages[Len(messages)] =
                Message("assistant", ConcatDeltas(net[k].chunks))

C3_Witness ==
    \E k \in DOMAIN turns :
        /\ turns[k].pc = "corrections"
        /\ net[k].chunks = << <<"a">>, <<"b">> >>
        /\ messages[Len(messages)].content = <<"a", "b">>

\* C4: at most one turn is in flight, the busy flag is set exactly while one
\* is, and a sendMessage call while the flag is set changes neither the
\* history, nor the transcript, nor the requests, nor the turn in flight.
C4_OneTurnInFlight ==
    /\ [](/\ Cardinality(InFlight) <= 1
          /\ isStreaming <=> InFlight # {}
          /\ Cardinality({ k \in DOMAIN net : net[k].reply \in {"pending", "open"} }) <= 1)
    /\ [][(isStreaming /\ \E value \in InputValues : sendMessage(value)) =>
            UNCHANGED <<messages, transcript, net, turns, isStreaming>>]_vars

C4_Witness ==
    /\ isStreaming
    /\ Len(turns) = 1
    /\ turns[1].pc = "stream"
    /\ net[1].chunks # <<>>

\* C5: a sendMessage call with no credential configured, or with a text that
\* is empty after trimming, issues no request and leaves the history, the
\* transcript and the busy flag as they were.
C5_RejectedIsNoOp ==
    [][\A value \in InputValues :
          (sendMessage(value) /\ (~openai \/ Trim(value) = <<>>)) =>
              UNCHANGED <<messages, transcript, isStreaming, net, turns>>]_vars

\* no credential and the modal closed by the user: the call then only
\* reopens the modal
C5_Witness ==
    /\ ~openai
    /\ settingsHidden
    /\ net = <<>>
    /\ transcript = <<>>

\* the responses of a correction request that failed, had no content, or had
\* content that is no JSON
NullResponses ==
    { [ok |-> FALSE, body |-> BodyEmpty],
      [ok |-> TRUE, body |-> BodyEmpty],
      [ok |-> TRUE, body |-> BodyNotJson] }

\* C6: a correction request that fails, or is answered with no content or
\* with unparsable content, settles the promise with null; the turn then ends
\* with no annotation and no error entry added, with its assistant message
\* in the history, and with the busy flag released.
C6_NullCorrectionIsSilent ==
    [][\A k \in DOMAIN turns :
          /\ \A response \in NullResponses :
                (CorrectionSettles(k, response)
                    /\ turns[k].correctionsPromise = Pending) =>
                        turns'[k].correctionsPromise = Fulfilled(JsNull)
          /\ (/\ turns[k].pc = "corrections"
              /\ turns[k].correctionsPromise = Fulfilled(JsNull)
              /\ turns'[k].pc = "done") =>
                 /\ transcript' = transcript
                 /\ timers' = timers
                 /\ messages' = messages
                 /\ messages[Len(messages)] =
                      Message("assistant", transcript[turns[k].contentDiv].text)
                 /\ ~isStreaming'
                 /\ ~sendBtnDisabled'
                 /\ ~userInputDisabled']_vars

C6_Witness ==
    \E k \in DOMAIN turns :
        /\ turns[k].pc = "corrections"
        /\ turns[k].correctionsPromise = Fulfilled(JsNull)
        /\ transcript[turns[k].userMessageElement].annotations = <<>>

\* C7 (as claimed): a correction payload never produces an error entry, so
\* every error entry of the transcript belongs to a turn whose reply failed.
C7_PayloadNeverSurfaced ==
    \A i \in ErrorEntries : net[transcript[i].turn].reply = "failed"

\* C8 (as claimed): once the correction request of a turn has resolved with
\* issues, the annotation is on the turn's user node, also while the reply
\* of the turn is still awaited or streaming.
C8_AttachedWhenResolved ==
    \A k \in DOMAIN turns :
        (/\ turns[k].pc \in {"create", "stream"}
         /\ turns[k].correctionsPromise.state = "fulfilled"
         /\ Truthy(turns[k].correctionsPromise.value)
         /\ AddCorrectionsOutcome(turns[k].correctionsPromise.value).kind = "attach")
        => transcript[turns[k].userMessageElement].annotations # <<>>

\* C9: no node of the transcript ever carries more than one annotation.
C9_AttachedAtMostOnce ==
    \A i \in DOMAIN transcript : Len(transcript[i].annotations) <= 1

C9_Witness ==
    /\ Len(turns) >= 2
    /\ \A k \in DOMAIN turns :
          /\ turns[k].pc = "done"
          /\ Len(transcript[turns[k].userMessageElement].annotations) = 1

\* C10: every annotation is on the user node made by the activation that
\* attached it.
C10_AttachedToOwnNode ==
    \A i \in DOMAIN transcript :
        \A j \in DOMAIN transcript[i].annotations :
            LET k == transcript[i].annotations[j].by
            IN /\ transcript[i].role = "user"
               /\ transcript[i].turn = k
               /\ i = turns[k].userMessageElement

\* the second turn is annotated after a first turn whose reply failed and
\* whose correction response came during the second turn
C10_Witness ==
    /\ Len(turns) >= 2
    /\ net[1].reply = "failed"
    /\ net[1].corrections = "settled"
    /\ transcript[turns[1].userMessageElement].annotations = <<>>
    /\ \E j \in DOMAIN transcript[turns[2].userMessageElement].annotations :
          transcript[turns[2].userMessageElement].annotations[j].by = 2

\* C11: while the reply request of an accepted turn is pending, or its
\* stream is open with chunks still to come, the busy flag is set and no
\* sendMessage call is accepted, whatever the text box holds.
C11_BusyWhileReplyUnsettled ==
    \A k \in DOMAIN net :
        net[k].reply \in {"pending", "open"} =>
            /\ isStreaming
            /\ \A value \in InputValues :
                  ~ENABLED (sendMessage(value) /\ turns' # turns)

\* the second turn's stream is open, one delta in, after a first turn
C11_Witness ==
    /\ Len(turns) = 2
    /\ net[2].reply = "open"
    /\ Len(net[2].chunks) = 1
    /\ turns[1].pc = "done"

\* C12 (as claimed): the busy flag is set while the correction request of
\* the most recently accepted turn is pending.
C12_BusyUntilCorrectionSettled ==
    \A k \in DOMAIN net :
        (k = Len(turns) /\ net[k].corrections = "pending") => isStreaming

\* C12 (amended): the busy flag is set while the correction request of the
\* most recently accepted turn is pending, unless the reply path of that
\* turn has failed: the catch and finally blocks then run at once.
C12_BusyUntilCorrectionSettledUnlessFailed ==
    \A k \in DOMAIN net :
        (k = Len(turns) /\ net[k].corrections = "pending"
                       /\ net[k].reply # "failed") => isStreaming

\* the stream has completed and the activation waits at line 495
C12_Witness ==
    \E k \in DOMAIN turns :
        /\ k = Len(turns)
        /\ net[k].reply = "ended"
        /\ net[k].corrections = "pending"
        /\ turns[k].pc = "corrections"
        /\ isStreaming

\* the error entries whose text contains '401' or 'API key'
AuthErrorEntries ==
    { i \in ErrorEntries :
        \/ Includes(transcript[i].text, Needle401)
        \/ Includes(transcript[i].text, NeedleApiKey) }

\* the reply path of activation k fails in this step
ReplyFails(k) ==
    /\ k \in DOMAIN turns
    /\ turns[k].pc \in {"create", "stream"}
    /\ net'[k].reply = "failed"

\* C13: a reply failure whose message contains '401' or 'API key' renders
\* an error entry with that message and schedules one timer in the same
\* step; a timer exists only after an error entry of that kind was rendered;
\* and the step in which a timer fires leaves the settings modal visible.
C13_AuthErrorThenPrompt ==
    /\ [](timers <= Cardinality(AuthErrorEntries))
    /\ [][/\ \A k \in DOMAIN turns, error \in ReplyErrors :
               ( /\ ReplyFails(k)
                 /\ \/ ReplyRejects(k, error)
                    \/ StreamThrows(k, error)
                 /\ \/ Includes(ErrorMessage(error), Needle401)
                    \/ Includes(ErrorMessage(error), NeedleApiKey) ) =>
                   /\ transcript' =
                        Append(transcript,
                               MessageElement("assistant",
                                   ErrorPrefix \o ErrorMessage(error), k))
                   /\ timers' = timers + 1
                   /\ UNCHANGED settingsHidden
          /\ timers' < timers => ~settingsHidden']_vars

\* the error entry is in the transcript, the timer has fired and the modal
\* is open
C13_Witness ==
    /\ AuthErrorEntries # {}
    /\ timers = 0
    /\ ~settingsHidden
    /\ openai

\* the error entries rendered by activation k
ErrorEntriesOf(k) == { i \in ErrorEntries : transcript[i].turn = k }

\* C14: a reply failure whose message contains neither '401' nor 'API key'
\* renders one error entry with that message, schedules no timer and leaves
\* the settings modal as it was; no turn ever has more than one error entry.
C14_OtherErrorNoPrompt ==
    /\ [](\A k \in DOMAIN turns : Cardinality(ErrorEntriesOf(k)) <= 1)
    /\ [][\A k \in DOMAIN turns, error \in ReplyErrors :
             ( /\ ReplyFails(k)
               /\ \/ ReplyRejects(k, error)
                  \/ StreamThrows(k, error)
               /\ ~Includes(ErrorMessage(error), Needle401)
               /\ ~Includes(ErrorMessage(error), NeedleApiKey) ) =>
                 /\ transcript' =
                      Append(transcript,
                             MessageElement("assistant",
                                 ErrorPrefix \o ErrorMessage(error), k))
                 /\ UNCHANGED <<timers, settingsHidden>>]_vars

\* two turns failed, one with an Error and one with a thrown value that is
\* no Error; no timer was ever scheduled
C14_Witness ==
    /\ Len(turns) = 2
    /\ \A k \in DOMAIN turns :
          /\ net[k].reply = "failed"
          /\ Cardinality(ErrorEntriesOf(k)) = 1
    /\ \E i \in ErrorEntriesOf(1) :
          transcript[i].text = ErrorPrefix \o AnErrorOccurred
    /\ \E i \in ErrorEntriesOf(2) :
          transcript[i].text = ErrorPrefix \o <<"n", "e", "t">>
    /\ AuthErrorEntries = {}
    /\ timers = 0
    /\ settingsHidden

\* C15: a sendMessage call with no credential configured leaves the
\* settings modal visible, whatever the text box holds and whether the
\* modal was open or closed before.
C15_NoCredentialOpensSettings ==
    [][\A value \in InputValues :
          (sendMessage(value) /\ ~openai) => ~settingsHidden']_vars

\* no credential, the modal closed by the user, and a sendMessage call with
\* a blank text box that opens it again
C15_Witness ==
    /\ ~openai
    /\ settingsHidden
    /\ ENABLED (sendMessage(<<" ">>) /\ ~settingsHidden')

\* C16: the step in which the reply path of a turn fails after k >= 0
\* deltas leaves the concatenation of those k deltas in the placeholder and
\* the history unchanged; the placeholder of a failed turn keeps its text
\* afterwards; and the history holds one assistant message for each turn
\* whose stream completed and none for any other turn.
C16_PartialReplyNotCommitted ==
    /\ [](Cardinality({ i \in DOMAIN messages : messages[i].role = "assistant" })
            = Cardinality({ k \in DOMAIN net : net[k].reply = "ended" }))
    /\ [][\A k \in DOMAIN turns :
             /\ ReplyFails(k) =>
                   /\ transcript'[turns[k].contentDiv].text =
                        ConcatDeltas(net[k].chunks)
                   /\ UNCHANGED messages
             /\ net[k].reply = "failed" =>
                   transcript'[turns[k].contentDiv].text =
                     transcript[turns[k].contentDiv].text]_vars

\* the first stream failed after the deltas 'a' and 'b', the second after no
\* delta; the history has no assistant message
C16_Witness ==
    /\ Len(turns) = 2
    /\ net[1].reply = "failed"
    /\ net[2].reply = "failed"
    /\ transcript[turns[1].contentDiv].text = <<"a", "b">>
    /\ transcript[turns[2].contentDiv].text = <<>>
    /\ \A i \in DOMAIN messages : messages[i].role # "assistant"

\* C17 (as claimed): in src/app.ts too, the text of an error entry is the
\* content of no message of the history and of no message of the context
\* sent with a reply request.
C17_ErrorEntryDisplayOnly ==
    \A i \in ErrorEntries :
        /\ \A j \in DOMAIN messages : messages[j].content # transcript[i].text
        /\ \A k \in DOMAIN net :
              \A j \in DOMAIN net[k].context :
                  net[k].context[j].content # transcript[i].text

\* s is a prefix of t
IsPrefix(s, t) == Len(s) <= Len(t) /\ SubSeq(t, 1, Len(s)) = s

\* C18: the first message of the history is the persona message pushed by
\* init, no other message has the role 'system', and every step leaves the
\* history as it was or extends it at the end.
C18_AppendOnlyFixedHead ==
    /\ [](/\ Len(messages) >= 1
          /\ messages[1] = Message("system", Persona)
          /\ \A i \in DOMAIN messages : i > 1 => messages[i].role # "system")
    /\ [][IsPrefix(messages, messages')]_vars

\* a failed turn and then a completed one: persona, user, user, assistant
C18_Witness ==
    /\ Len(messages) = 4
    /\ messages[1].role = "system"
    /\ messages[2].role = "user"
    /\ messages[3].role = "user"
    /\ messages[4].role = "assistant"

\* a correction result with hasCorrections true and a non-empty list
HasIssues(v) ==
    /\ v.t = "object"
    /\ v.hasCorrections = JsBool(TRUE)
    /\ v.corrections.t = "array"
    /\ v.corrections.items # <<>>

RECURSIVE HistoryOf(_)
HistoryOf(n) ==
    IF n = 0 THEN << Message("system", Persona) >>
    ELSE HistoryOf(n - 1)
         \o << Message("user", turns[n].content) >>
         \o (IF net[n].reply = "ended"
             THEN << Message("assistant", transcript[turns[n].contentDiv].text) >>
             ELSE <<>>)

\* C20: in every state the history is the one determined by the texts of
\* the accepted turns and the outcomes of their reply paths, whatever the
\* correction requests returned and whenever they returned it; so two runs
\* that agree on the former end with the same history.
C20_HistoryIgnoresCorrections ==
    messages = HistoryOf(Len(turns))

\* two completed turns, one annotated and one whose correction payload
\* raised an error entry, and the history of two plain exchanges
C20_Witness ==
    /\ Len(turns) = 2
    /\ turns[1].pc = "done"
    /\ turns[2].pc = "done"
    /\ net[1].reply = "ended"
    /\ net[2].reply = "ended"
    /\ transcript[turns[1].userMessageElement].annotations # <<>>
    /\ ErrorEntriesOf(2) # {}
    /\ Len(messages) = 5

\* C21: from the step that accepts a turn on, so before a response of its
\* reply request or of its correction request is processed, the user
\* message of the turn is in the history and its node in the transcript;
\* and the context of the reply request is the history as it was then: the
\* persona message, the messages of the earlier turns in order, and the
\* user message of the turn last.
C21_UserMessageFirst ==
    \A k \in DOMAIN turns :
        /\ transcript[turns[k].userMessageElement].role = "user"
        /\ transcript[turns[k].userMessageElement].text = turns[k].content
        /\ net[k].context =
             HistoryOf(k - 1) \o << Message("user", turns[k].content) >>
        /\ IsPrefix(net[k].context, messages)

\* the second turn is accepted after a completed first one, and neither of
\* its requests has been answered
C21_Witness ==
    /\ Len(turns) = 2
    /\ net[1].reply = "ended"
    /\ turns[2].pc = "create"
    /\ net[2].reply = "pending"
    /\ net[2].corrections = "pending"
    /\ Len(net[2].context) = 4
    /\ messages = net[2].context

\* C22: when every request settles, a set busy flag is always followed by a
\* state with the flag released and the send button and the text box
\* enabled; and the step in which a reply path fails releases them at once.
C22_BusyEventuallyReleased ==
    /\ isStreaming ~> (~isStreaming /\ ~sendBtnDisabled /\ ~userInputDisabled)
    /\ [][\A k \in DOMAIN turns :
             ReplyFails(k) =>
                 ~isStreaming' /\ ~sendBtnDisabled' /\ ~userInputDisabled']_vars

\* both turns have ended, the first after a failed reply, and the controls
\* are released
C22_Witness ==
    /\ Len(turns) = 2
    /\ net[1].reply = "failed"
    /\ net[2].reply = "ended"
    /\ turns[2].pc = "done"
    /\ ~isStreaming
    /\ ~sendBtnDisabled
    /\ ~userInputDisabled

\* C23: the user node of a turn whose reply path has failed carries no
\* annotation, in every state from the failure on, so also after the
\* correction request of the turn has been answered.
C23_FailedTurnNeverAnnotated ==
    \A k \in DOMAIN turns :
        net[k].reply = "failed" =>
            transcript[turns[k].userMessageElement].annotations = <<>>

\* the stream of the only turn failed after one delta, and the correction
\* request was answered afterwards
C23_Witness ==
    /\ Len(turns) = 1
    /\ net[1].reply = "failed"
    /\ net[1].corrections = "settled"
    /\ transcript[turns[1].contentDiv].text = <<"a">>
    /\ transcript[turns[1].userMessageElement].annotations = <<>>

\* the annotations of the transcript, as pairs of node and position
Annotations ==
    { ij \in (DOMAIN transcript) \X (1..MaxTurns) :
        ij[2] \in DOMAIN transcript[ij[1]].annotations }

\* C24: an annotation is attached with its panel hidden; in every state a
\* click on its badge negates the panel's hidden attribute, so a second
\* click restores it; and a step that changes an annotation leaves the
\* history, the busy flag, the controls, the requests and the activations
\* as they were.
C24_PanelTogglesLocally ==
    /\ [](\A ij \in Annotations :
            ENABLED ( /\ BadgeClick(ij[1], ij[2])
                      /\ transcript'[ij[1]].annotations[ij[2]].hidden =
                           ~transcript[ij[1]].annotations[ij[2]].hidden ))
    /\ [][/\ \A i \in DOMAIN transcript :
                Len(transcript'[i].annotations) > Len(transcript[i].annotations) =>
                    transcript'[i].annotations[Len(transcript'[i].annotations)].hidden
          /\ \A ij \in Annotations :
                transcript'[ij[1]].annotations[ij[2]] #
                  transcript[ij[1]].annotations[ij[2]] =>
                    /\ transcript'[ij[1]].annotations[ij[2]].hidden =
                         ~transcript[ij[1]].annotations[ij[2]].hidden
                    /\ UNCHANGED <<messages, isStreaming, sendBtnDisabled,
                                   userInputDisabled, net, turns, timers,
                                   settingsHidden, openai>>]_vars

\* a panel that is hidden again after two clicks on its badge
C24_Witness ==
    \E ij \in Annotations :
        /\ transcript[ij[1]].annotations[ij[2]].hidden
        /\ transcript[ij[1]].annotations[ij[2]].active

\* C25 (as claimed): the badge of an annotation carries the class 'active'
\* exactly when the panel of the annotation is visible.
C25_ActiveIffVisible ==
    \A ij \in Annotations :
        transcript[ij[1]].annotations[ij[2]].active <=>
            ~transcript[ij[1]].annotations[ij[2]].hidden

\* C26: in every state between the steps of the sendMessage activations,
\* the send button and the text box are disabled exactly when the busy flag
\* is set.
C26_ControlsFollowBusyFlag ==
    /\ sendBtnDisabled <=> isStreaming
    /\ userInputDisabled <=> isStreaming

\* the controls are disabled again for a second turn, after the first turn
\* released them
C26_Witness ==
    /\ Len(turns) = 2
    /\ turns[1].pc = "done"
    /\ turns[2].pc = "stream"
    /\ isStreaming
    /\ sendBtnDisabled
    /\ userInputDisabled

====
